---------------------------- MODULE Spec2Model ----------------------------
(***************************************************************************)
(* A model of the TSP solver of pkg/solve.go and pkg/graph.go:             *)
(*   Graph.AddEdge / NodeCount, randomizedNearestNeighbor, twoOpt, reverse *)
(*   and SolveTSP with its worker goroutines, mutex, WaitGroup and         *)
(*   context deadline.                                                     *)
(* Edge weights are float64 in the code; the model uses integers, so a     *)
(* sum is exact and "delta < -1e-9" is "delta < 0".                        *)
(***************************************************************************)
EXTENDS Integers, Sequences, FiniteSets, TLC

\* ------------------------------------------------------------------ bounds
\* largest maxCPU argument passed to SolveTSP (0 .. MaxCPU)
MaxCPU == 2
\* the maxSeconds arguments passed to SolveTSP: no budget, and a budget
Budgets == {0, 1}
\* how many constructions may succeed in one solve (caps totalCycles)
MaxAttempts == 2

\* ------------------------------------------------------- program constants
\* runtime.NumCPU() of the machine the solver runs on
NumCPU == 2
\* k := 3, the width of the top-K selection
K == 3
\* math.MaxFloat64, the initial bestCost: above every cost of the model
MaxFloat64 == 1000000

\* ------------------------------------------------------------------ helpers
Min(a, b) == IF a < b THEN a ELSE b
Max(a, b) == IF a > b THEN a ELSE b
Range(s) == {s[x] : x \in 1..Len(s)}

\* ------------------------------------------------------------------- Graph
\* NewGraph: no edges, no nodes
NewGraph == [edges |-> [x \in {} |-> 0], nodes |-> <<>>]

\* m[k] = v on a Go map
MapSet(m, k, v) == [x \in (DOMAIN m) \cup {k} |-> IF x = k THEN v ELSE m[x]]

\* g.edges[n] == nil { g.edges[n] = make(map); g.nodes = append(g.nodes, n) }
Register(g, n) ==
    IF n \in DOMAIN g.edges
    THEN g
    ELSE [edges |-> MapSet(g.edges, n, [x \in {} |-> 0]),
          nodes |-> Append(g.nodes, n)]

\* the edge stored from the larger node to the smaller one only
AddEdgeOneWay(g, from, to, weight) ==
    LET f  == Max(from, to)
        t  == Min(from, to)
        g1 == Register(g, f)
        g2 == Register(g1, t)
    IN  [edges |-> MapSet(g2.edges, f, MapSet(g2.edges[f], t, weight)),
         nodes |-> g2.nodes]

\* func (g *Graph) AddEdge(from, to int, weight float64)
AddEdge(g, from, to, weight) ==
    LET f  == Max(from, to)
        t  == Min(from, to)
        g1 == Register(g, f)
        g2 == Register(g1, t)
        e1 == MapSet(g2.edges, f, MapSet(g2.edges[f], t, weight))
        e2 == MapSet(e1, t, MapSet(e1[t], f, weight))
    IN  [edges |-> e2, nodes |-> g2.nodes]

\* func (g *Graph) NodeCount() int
NodeCount(g) == Len(g.nodes)

\* _, ok := graph.edges[u][v]
HasEdge(g, u, v) == u \in DOMAIN g.edges /\ v \in DOMAIN g.edges[u]

\* graph.edges[u][v]: the zero value when the key is missing
Weight(g, u, v) == IF HasEdge(g, u, v) THEN g.edges[u][v] ELSE 0

\* the graph main.go's loadGraph builds: AddEdge on every line of the file
RECURSIVE BuildFrom(_, _)
BuildFrom(g, lines) ==
    IF lines = <<>>
    THEN g
    ELSE BuildFrom(AddEdge(g, lines[1][1], lines[1][2], lines[1][3]), Tail(lines))

LoadGraph(lines) == BuildFrom(NewGraph, lines)


\* ------------------------------------------------------- problem instances
\* the edge lines ("to from weight") of the instance files the solver is run
\* on; weights are scaled to integers (a unit side is 10, a diagonal 14)
NoLines == <<>>
SelfLoopLines == << <<1, 1, 5>> >>
PairLines == << <<1, 2, 3>> >>
SquareLines ==
    << <<1, 2, 10>>, <<2, 3, 10>>, <<3, 4, 10>>, <<4, 1, 10>>,
       <<1, 3, 14>>, <<2, 4, 14>> >>
\* a square with its sides in another order of weights and one diagonal only
KiteLines ==
    << <<1, 2, 10>>, <<2, 3, 10>>, <<3, 4, 10>>, <<4, 1, 10>>, <<1, 3, 14>> >>
\* two disjoint triangles: no tour closes
CliquesLines ==
    << <<1, 2, 1>>, <<2, 3, 1>>, <<1, 3, 1>>,
       <<4, 5, 1>>, <<5, 6, 1>>, <<4, 6, 1>> >>

Instances ==
    { LoadGraph(NoLines), LoadGraph(SelfLoopLines), LoadGraph(PairLines),
      LoadGraph(SquareLines), LoadGraph(KiteLines), LoadGraph(CliquesLines) }

\* a square whose diagonals weigh as much as its sides: every tour costs the same
UniformLines ==
    << <<1, 2, 7>>, <<2, 3, 7>>, <<3, 4, 7>>, <<4, 1, 7>>,
       <<1, 3, 7>>, <<2, 4, 7>> >>
\* five nodes, every pair joined: a node has four neighbours, one more than k
FiveLines ==
    << <<1, 2, 10>>, <<2, 3, 10>>, <<3, 4, 10>>, <<4, 5, 10>>, <<5, 1, 10>>,
       <<1, 3, 14>>, <<2, 4, 14>>, <<3, 5, 16>>, <<4, 1, 16>>, <<5, 2, 12>> >>
\* five nodes, every pair joined, with weights under which twoOpt needs more
\* than one sweep from some tours and ends at a tour that is not the cheapest
RuggedLines ==
    << <<1, 2, 12>>, <<2, 3, 16>>, <<3, 4, 14>>, <<4, 5, 10>>, <<5, 1, 16>>,
       <<1, 3, 20>>, <<2, 4, 10>>, <<3, 5, 12>>, <<4, 1, 14>>, <<5, 2, 10>> >>

\* the graphs the construction and the local search are run on by themselves
Graphs ==
    Instances
        \cup {LoadGraph(UniformLines), LoadGraph(FiveLines), LoadGraph(RuggedLines)}

\* ------------------------------------------------- randomizedNearestNeighbor
\* every order in which "for n, w := range neighbors" may yield the keys
ScanOrders(neighbors) ==
    LET S == DOMAIN neighbors
    IN  {o \in [1..Cardinality(S) -> S] : Range(o) = S}

\* index (from 1) of the worst candidate: the first one of largest dist
RECURSIVE MaxDistIdxFrom(_, _, _)
MaxDistIdxFrom(topK, i, maxDistIdx) ==
    IF i > Len(topK)
    THEN maxDistIdx
    ELSE MaxDistIdxFrom(topK, i + 1,
                        IF topK[i].dist > topK[maxDistIdx].dist THEN i ELSE maxDistIdx)

\* the worst candidate taken to be the first one
MaxDistIdxFirst(topK) == 1

MaxDistIdx(topK) == MaxDistIdxFrom(topK, 2, 1)

\* one iteration of the scan's body on neighbour n of weight w
ScanStep(topK, visited, n, w) ==
    IF n \in visited
    THEN topK
    ELSE IF Len(topK) < K
         THEN Append(topK, [node |-> n, dist |-> w])
         ELSE LET m == MaxDistIdx(topK)
              IN  IF w < topK[m].dist
                  THEN [topK EXCEPT ![m] = [node |-> n, dist |-> w]]
                  ELSE topK

\* the whole scan, in the given order, from an empty topK
RECURSIVE ScanFrom(_, _, _, _, _)
ScanFrom(topK, visited, neighbors, order, x) ==
    IF x > Len(order)
    THEN topK
    ELSE ScanFrom(ScanStep(topK, visited, order[x], neighbors[order[x]]),
                  visited, neighbors, order, x + 1)

TopKOf(neighbors, visited, order) == ScanFrom(<<>>, visited, neighbors, order, 1)

\* return nil, 0, false
NNFail == [path |-> <<>>, cost |-> 0, ok |-> FALSE]

\* the loop closed without the test of ok
CloseLoopUnchecked(g, path, totalCost) ==
    [path |-> path,
     cost |-> totalCost + Weight(g, path[Len(path)], path[1]),
     ok |-> TRUE]

\* "Close the loop": the edge from the last node back to the first
CloseLoop(g, path, totalCost) ==
    LET first == path[1]
        last  == path[Len(path)]
    IN  IF HasEdge(g, last, first)
        THEN [path |-> path, cost |-> totalCost + g.edges[last][first], ok |-> TRUE]
        ELSE NNFail

\* every result of the construction from a partial path, over every scan
\* order of the neighbour map and every draw of rng.Intn(len(topK))
RECURSIVE NNFrom(_, _, _, _)
NNFrom(g, numNodes, path, totalCost) ==
    IF Len(path) < numNodes
    THEN LET current   == path[Len(path)]
             neighbors == g.edges[current]
             visited   == Range(path)
         IN  UNION { LET topK == TopKOf(neighbors, visited, order)
                     IN  IF Len(topK) = 0
                         THEN {NNFail}
                         ELSE UNION { NNFrom(g, numNodes,
                                             Append(path, topK[c].node),
                                             totalCost + topK[c].dist)
                                      : c \in 1..Len(topK) }
                     : order \in ScanOrders(neighbors) }
    ELSE {CloseLoop(g, path, totalCost)}

\* func randomizedNearestNeighbor(startNode, numNodes, graph, rng)
randomizedNearestNeighbor(startNode, numNodes, g) ==
    NNFrom(g, numNodes, <<startNode>>, 0)

\* --------------------------------------------------------------- twoOpt
\* path[i] of the code (indices from 0)
At(path, i) == path[i + 1]

\* reverse with the swap written as two assignments in a row:
\* path[i] = path[j]; path[j] = path[i]
RECURSIVE reverseOverwrites(_, _, _)
reverseOverwrites(path, i, j) ==
    IF i < j
    THEN reverseOverwrites([path EXCEPT ![i + 1] = At(path, j)], i + 1, j - 1)
    ELSE path

\* func reverse(path, i, j): swap the ends, move inwards
RECURSIVE reverse(_, _, _)
reverse(path, i, j) ==
    IF i < j
    THEN reverse([path EXCEPT ![i + 1] = At(path, j), ![j + 1] = At(path, i)],
                 i + 1, j - 1)
    ELSE path

\* the comparison with its sign turned: delta > 1e-9
ImprovesSignSlip(delta) == delta > 0

\* the comparison without the margin and without strictness: delta <= 0
ImprovesOrEqual(delta) == delta <= 0

\* delta < -1e-9 on integer weights
Improves(delta) == delta < 0

\* ok1 || ok2
EitherExists(ok1, ok2) == ok1 \/ ok2

\* ok1 && ok2: both replacement edges exist
BothExist(ok1, ok2) == ok1 /\ ok2

\* the body of the inner loop at (i, j): the tour, the cost and whether a
\* move was applied
PairBody(g, path, currentCost, i, j) ==
    LET size  == Len(path)
        u1    == At(path, i)
        v1    == At(path, (i + 1) % size)
        u2    == At(path, j)
        v2    == At(path, (j + 1) % size)
        w1    == Weight(g, u1, v1)
        w2    == Weight(g, u2, v2)
        wNew1 == Weight(g, u1, u2)
        wNew2 == Weight(g, v1, v2)
        delta == (wNew1 + wNew2) - (w1 + w2)
        keep  == [path |-> path, cost |-> currentCost, applied |-> FALSE]
    IN  IF i = 0 /\ j = size - 1
        THEN keep
        ELSE IF BothExist(HasEdge(g, u1, u2), HasEdge(g, v1, v2)) /\ Improves(delta)
             THEN [path |-> reverse(path, i + 1, j),
                   cost |-> currentCost + delta,
                   applied |-> TRUE]
             ELSE keep

\* the inner loop started at j := i + 3
RowFromWide(i, size) == IF i + 3 < size THEN <<i, i + 3>> ELSE <<size, size>>

\* the first pair of the loops from row i on: <<size, size>> when no row is left
RowFrom(i, size) == IF i + 2 < size THEN <<i, i + 2>> ELSE <<size, size>>

\* the inner loop stepping j += 2
NextPairSkips(i, j, size) ==
    IF j + 2 < size THEN <<i, j + 2>> ELSE RowFrom(i + 1, size)

\* the pair after (i, j) in "for i := range size { for j := i + 2; j < size; j++"
NextPair(i, j, size) == IF j + 1 < size THEN <<i, j + 1>> ELSE RowFrom(i + 1, size)

\* the states of the loops of one sweep: the tour, the cost, the improved
\* flag and the pair (i, j) the loops are at, on graph g
LoopStates ==
    [g : Graphs,
     path : Seq(Int), cost : Int, improved : BOOLEAN, i : Nat, j : Nat]

\* the rest of one sweep, from pair (i, j) on: what the tour, the cost and
\* the flag are after the body of each pair, in the loops' order
SweepFrom[st \in LoopStates] ==
    IF st.i < Len(st.path)
    THEN LET r    == PairBody(st.g, st.path, st.cost, st.i, st.j)
             next == NextPair(st.i, st.j, Len(st.path))
             now  == [path |-> r.path, cost |-> r.cost,
                      improved |-> st.improved \/ r.applied,
                      applied |-> r.applied, i |-> st.i, j |-> st.j]
         IN  <<now>> \o SweepFrom[[g |-> st.g, path |-> now.path, cost |-> now.cost,
                                   improved |-> now.improved,
                                   i |-> next[1], j |-> next[2]]]
    ELSE <<>>

\* one sweep of "for improved": improved = false, then every pair
SweepTrace(g, path, currentCost) ==
    LET first == RowFrom(0, Len(path))
    IN  <<[path |-> path, cost |-> currentCost, improved |-> FALSE,
           applied |-> FALSE, i |-> 0, j |-> 0]>>
        \o SweepFrom[[g |-> g, path |-> path, cost |-> currentCost,
                      improved |-> FALSE, i |-> first[1], j |-> first[2]]]

\* the tour, the cost and the flag when the sweep ends
Sweep(g, path, currentCost) ==
    LET t == SweepTrace(g, path, currentCost) IN t[Len(t)]

\* the weight of the cycle: every consecutive edge and the closing one
RECURSIVE CycleWeightFrom(_, _, _)
CycleWeightFrom(g, path, i) ==
    IF i >= Len(path)
    THEN 0
    ELSE Weight(g, At(path, i), At(path, (i + 1) % Len(path)))
         + CycleWeightFrom(g, path, i + 1)

CycleWeight(g, path) == CycleWeightFrom(g, path, 0)


\* the results of the construction, per instance and start node
NNTable ==
    [g \in Instances |->
        [s \in Range(g.nodes) |-> randomizedNearestNeighbor(s, NodeCount(g), g)]]

\* ------------------------------------------------------------------- state
VARIABLES
    graph,        \* the *Graph passed to SolveTSP
    maxCPU,       \* SolveTSP's argument
    maxSeconds,   \* SolveTSP's argument
    mpc,          \* where SolveTSP's own goroutine is
    ctx,          \* the context: "none", "active", "expired", "canceled"
    numWorkers,   \* min(runtime.NumCPU(), maxCPU)
    spawned,      \* i of "for i := range numWorkers"
    wg,           \* the WaitGroup's counter
    locked,       \* mu is held
    totalCycles,  \* shared
    bestPath,     \* shared; <<>> is nil
    bestCost,     \* shared
    result,       \* what SolveTSP returned
    wpc,          \* where each worker is
    wpath,        \* each worker's path
    wcost,        \* each worker's cost
    improved,     \* each worker's twoOpt flag
    tmp,          \* each worker's register in totalCycles++
    refinedMin,   \* history: the least cost a twoOpt call returned
    refinedCount  \* history: the number of twoOpt calls that returned

vars ==
    << graph, maxCPU, maxSeconds, mpc, ctx, numWorkers, spawned, wg, locked,
       totalCycles, bestPath, bestCost, result, wpc, wpath, wcost,
       improved, tmp, refinedMin, refinedCount >>

shared == << totalCycles, bestPath, bestCost >>
inputs == << graph, maxCPU, maxSeconds >>
mainVars == << mpc, ctx, numWorkers, spawned, result >>
localVars == << wpath, wcost, improved, tmp >>
history == << refinedMin, refinedCount >>

\* worker ids: i of the spawning loop
Workers == 0..(NumCPU - 1)

NoResult == [tour |-> <<>>, cost |-> 0, attempts |-> 0]

\* a context whose Done channel is closed by cancel only, not by the deadline
ClosedOnCancelOnly(c) == c = "canceled"

\* <-c.Done() is ready: the deadline passed or cancel was called
Closed(c) == c \in {"expired", "canceled"}

Done == Closed(ctx)

Init ==
    /\ graph \in Instances
    /\ maxCPU \in 0..MaxCPU
    /\ maxSeconds \in Budgets
    /\ mpc = "start"
    /\ ctx = "none"
    /\ numWorkers = 0
    /\ spawned = 0
    /\ wg = 0
    /\ locked = FALSE
    /\ totalCycles = 0
    /\ bestPath = <<>>
    /\ bestCost = MaxFloat64
    /\ result = NoResult
    /\ wpc = [w \in Workers |-> "idle"]
    /\ wpath = [w \in Workers |-> <<>>]
    /\ wcost = [w \in Workers |-> 0]
    /\ improved = [w \in Workers |-> FALSE]
    /\ tmp = [w \in Workers |-> 0]
    /\ refinedMin = MaxFloat64
    /\ refinedCount = 0

\* ---------------------------------------------------------------- SolveTSP
\* return []int{}, 0.0, 0
EmptyGraphResult == [tour |-> <<>>, cost |-> 0, attempts |-> 0]

\* the one-node graph answered like the empty one
SingleNodeAsEmpty(g) == [tour |-> <<>>, cost |-> 0, attempts |-> 0]

\* return graph.nodes, 0.0, 1
SingleNodeResult(g) == [tour |-> g.nodes, cost |-> 0, attempts |-> 1]

\* bestCost returned as it stands when no path was found
NoPathKeepsBestCost(cycles) == [tour |-> <<>>, cost |-> MaxFloat64, attempts |-> cycles]

\* return []int{}, 0.0, totalCycles
NoPathResult(cycles) == [tour |-> <<>>, cost |-> 0, attempts |-> cycles]

\* return bestPath, bestCost, totalCycles
BestResult(path, cost, cycles) == [tour |-> path, cost |-> cost, attempts |-> cycles]

\* nodeCount == 0
ReturnEmptyGraph ==
    /\ mpc = "start"
    /\ NodeCount(graph) = 0
    /\ result' = EmptyGraphResult
    /\ mpc' = "returned"
    /\ UNCHANGED << inputs, ctx, numWorkers, spawned, wg, locked, shared, wpc,
                    localVars, history >>

\* nodeCount == 1
ReturnSingleNode ==
    /\ mpc = "start"
    /\ NodeCount(graph) = 1
    /\ result' = SingleNodeResult(graph)
    /\ mpc' = "returned"
    /\ UNCHANGED << inputs, ctx, numWorkers, spawned, wg, locked, shared, wpc,
                    localVars, history >>

\* context.WithTimeout: a timeout that is not positive has expired already
WithTimeout(seconds) == IF seconds <= 0 THEN "expired" ELSE "active"

\* numWorkers := min(runtime.NumCPU(), maxCPU)
NumWorkers(cap) == Min(NumCPU, cap)

\* bestPath, totalCycles and bestCost are declared (nil, 0, MaxFloat64, as
\* in Init); the context and the worker count are set up
Setup ==
    /\ mpc = "start"
    /\ NodeCount(graph) >= 2
    /\ ctx' = WithTimeout(maxSeconds)
    /\ numWorkers' = NumWorkers(maxCPU)
    /\ spawned' = 0
    /\ mpc' = "spawn"
    /\ UNCHANGED << inputs, wg, locked, shared, result, wpc, localVars, history >>

\* the deadline of the context passes
DeadlineFires ==
    /\ ctx = "active"
    /\ ctx' = "expired"
    /\ UNCHANGED << inputs, mpc, numWorkers, spawned, wg, locked, shared, result,
                    wpc, localVars, history >>

\* wg.Add(1); go worker(seed, i)
Spawn ==
    /\ mpc = "spawn"
    /\ spawned < numWorkers
    /\ wg' = wg + 1
    /\ wpc' = [wpc EXCEPT ![spawned] = "loop"]
    /\ spawned' = spawned + 1
    /\ UNCHANGED << inputs, mpc, ctx, numWorkers, locked, shared, result,
                    localVars, history >>

\* the spawning loop ends: wg.Wait() is called
SpawnDone ==
    /\ mpc = "spawn"
    /\ ~(spawned < numWorkers)
    /\ mpc' = "wait"
    /\ UNCHANGED << inputs, ctx, numWorkers, spawned, wg, locked, shared, result,
                    wpc, localVars, history >>

\* SolveTSP going on without wg.Wait()
NoWait(counter) == TRUE

\* wg.Wait() may return
WaitOver(counter) == counter = 0

Wait ==
    /\ mpc = "wait"
    /\ WaitOver(wg)
    /\ mpc' = "collect"
    /\ UNCHANGED << inputs, ctx, numWorkers, spawned, wg, locked, shared, result,
                    wpc, localVars, history >>

\* defer cancel()
Cancel(c) == IF c = "active" THEN "canceled" ELSE c

\* "If no path found": bestPath == nil picks the result; the deferred cancel
\* runs as SolveTSP returns
Return ==
    /\ mpc = "collect"
    /\ result' = IF bestPath = <<>>
                 THEN NoPathResult(totalCycles)
                 ELSE BestResult(bestPath, bestCost, totalCycles)
    /\ ctx' = Cancel(ctx)
    /\ mpc' = "returned"
    /\ UNCHANGED << inputs, numWorkers, spawned, wg, locked, shared, wpc,
                    localVars, history >>


\* ------------------------------------------------------------- the workers
\* constructions that succeeded so far: the calls of twoOpt that returned and
\* the ones that are running
Constructed ==
    refinedCount + Cardinality({w \in Workers : wpc[w] = "sweep"})

\* case <-ctx.Done(): return, and the deferred wg.Done()
WorkerExit(w) ==
    /\ wpc[w] = "loop"
    /\ Done
    /\ wpc' = [wpc EXCEPT ![w] = "exited"]
    /\ wg' = wg - 1
    /\ UNCHANGED << inputs, mainVars, locked, shared, localVars, history >>

\* default: a start node is drawn and the construction runs; a failed
\* construction continues the loop, a tour enters twoOpt (improved := true)
Attempt(w) ==
    /\ wpc[w] = "loop"
    /\ ~Done
    /\ \E startNode \in Range(graph.nodes) :
         \E r \in NNTable[graph][startNode] :
            \/ /\ ~r.ok
               /\ UNCHANGED << wpc, localVars >>
            \/ /\ r.ok
               /\ Constructed < MaxAttempts
               /\ wpath' = [wpath EXCEPT ![w] = r.path]
               /\ wcost' = [wcost EXCEPT ![w] = r.cost]
               /\ improved' = [improved EXCEPT ![w] = TRUE]
               /\ wpc' = [wpc EXCEPT ![w] = "sweep"]
               /\ UNCHANGED tmp
    /\ UNCHANGED << inputs, mainVars, wg, locked, shared, history >>

\* twoOpt returns path, currentCost to the worker, which goes on to mu.Lock()
TwoOptReturns(w) ==
    /\ wpc' = [wpc EXCEPT ![w] = "lock"]
    /\ refinedMin' = Min(refinedMin, wcost[w])
    /\ refinedCount' = refinedCount + 1
    /\ UNCHANGED << inputs, mainVars, wg, locked, shared, localVars >>

\* "for improved" ends: the last sweep applied no move
TwoOptConverged(w) ==
    /\ wpc[w] = "sweep"
    /\ ~improved[w]
    /\ TwoOptReturns(w)

\* case <-ctx.Done() at the top of a sweep
TwoOptCancelled(w) ==
    /\ wpc[w] = "sweep"
    /\ improved[w]
    /\ Done
    /\ TwoOptReturns(w)

\* the signal is not set at the top of the loop: one sweep over every pair
SweepStart(w) ==
    /\ wpc[w] = "sweep"
    /\ improved[w]
    /\ ~Done
    /\ LET r == Sweep(graph, wpath[w], wcost[w])
       IN  /\ wpath' = [wpath EXCEPT ![w] = r.path]
           /\ wcost' = [wcost EXCEPT ![w] = r.cost]
           /\ improved' = [improved EXCEPT ![w] = r.improved]
    /\ UNCHANGED << inputs, mainVars, wg, locked, shared, wpc, tmp, history >>

\* the update without mu.Lock()
NoLock(held) == TRUE

\* mu.Lock() may take the mutex
LockFree(held) == ~held

\* mu.Lock()
Lock(w) ==
    /\ wpc[w] = "lock"
    /\ LockFree(locked)
    /\ locked' = TRUE
    /\ wpc' = [wpc EXCEPT ![w] = "load"]
    /\ UNCHANGED << inputs, mainVars, wg, shared, localVars, history >>

\* totalCycles++ : the read
Load(w) ==
    /\ wpc[w] = "load"
    /\ tmp' = [tmp EXCEPT ![w] = totalCycles]
    /\ wpc' = [wpc EXCEPT ![w] = "store"]
    /\ UNCHANGED << inputs, mainVars, wg, locked, shared, wpath, wcost,
                    improved, history >>

\* totalCycles++ : the write
Store(w) ==
    /\ wpc[w] = "store"
    /\ totalCycles' = tmp[w] + 1
    /\ wpc' = [wpc EXCEPT ![w] = "compare"]
    /\ UNCHANGED << inputs, mainVars, wg, locked, bestPath, bestCost, localVars,
                    history >>

\* the comparison that never lets a tour in
NeverBetter(cost, best) == FALSE

\* cost <= bestCost
BetterOrEqual(cost, best) == cost <= best

\* cost < bestCost
Better(cost, best) == cost < best

\* if cost < bestCost { bestCost = cost; bestPath = copy of path }
Compare(w) ==
    /\ wpc[w] = "compare"
    /\ IF Better(wcost[w], bestCost)
       THEN /\ bestCost' = wcost[w]
            /\ bestPath' = wpath[w]
       ELSE UNCHANGED << bestCost, bestPath >>
    /\ wpc' = [wpc EXCEPT ![w] = "unlock"]
    /\ UNCHANGED << inputs, mainVars, wg, locked, totalCycles, localVars,
                    history >>

\* the iteration ending without mu.Unlock()
StillHeld(held) == held

\* what mu.Unlock() leaves of the mutex
Released(held) == FALSE

\* mu.Unlock(); the iteration ends and its variables go out of scope
Unlock(w) ==
    /\ wpc[w] = "unlock"
    /\ locked' = Released(locked)
    /\ wpc' = [wpc EXCEPT ![w] = "loop"]
    /\ wpath' = [wpath EXCEPT ![w] = <<>>]
    /\ wcost' = [wcost EXCEPT ![w] = 0]
    /\ improved' = [improved EXCEPT ![w] = FALSE]
    /\ tmp' = [tmp EXCEPT ![w] = 0]
    /\ UNCHANGED << inputs, mainVars, wg, shared, history >>

WorkerStep(w) ==
    \/ WorkerExit(w)
    \/ Attempt(w)
    \/ TwoOptConverged(w)
    \/ TwoOptCancelled(w)
    \/ SweepStart(w)
    \/ Lock(w)
    \/ Load(w)
    \/ Store(w)
    \/ Compare(w)
    \/ Unlock(w)

MainStep ==
    \/ ReturnEmptyGraph
    \/ ReturnSingleNode
    \/ Setup
    \/ Spawn
    \/ SpawnDone
    \/ Wait
    \/ Return

Next ==
    \/ MainStep
    \/ DeadlineFires
    \/ \E w \in Workers : WorkerStep(w)

Spec == Init /\ [][Next]_vars

\* the steps of a worker other than the start of a construction or of a sweep
WorkerProgress(w) ==
    \/ WorkerExit(w)
    \/ TwoOptConverged(w)
    \/ TwoOptCancelled(w)
    \/ Lock(w)
    \/ Load(w)
    \/ Store(w)
    \/ Compare(w)
    \/ Unlock(w)

\* the Go scheduler runs every goroutine that can run: SolveTSP's own and
\* each worker. Nothing is assumed of the deadline, and nothing of the steps
\* that start new work, so a worker may also stall before them.
Fairness ==
    /\ WF_vars(MainStep)
    /\ \A w \in Workers : WF_vars(WorkerProgress(w))

FairSpec == Init /\ [][Next]_vars /\ Fairness


\* ------------------------------------------------------------------ claims
\* the workers SolveTSP spawns in this run
SpawnedWorkers == {w \in Workers : w < numWorkers}

\* the workers inside the critical section between mu.Lock() and mu.Unlock()
InCritical == {w \in Workers : wpc[w] \in {"load", "store", "compare", "unlock"}}

\* the workers that hold a tour: in twoOpt or on the way through the update
Touring == {w \in Workers : wpc[w] \in {"sweep", "lock", "load", "store", "compare", "unlock"}}

\* tour holds every node of g exactly once
IsPermutation(tour, g) ==
    /\ Len(tour) = NodeCount(g)
    /\ \A n \in Range(g.nodes) : Cardinality({x \in 1..Len(tour) : tour[x] = n}) = 1

\* every consecutive pair of tour and the pair (last, first) is an edge of g
ValidCycle(g, tour) ==
    \A x \in 0..(Len(tour) - 1) : HasEdge(g, At(tour, x), At(tour, (x + 1) % Len(tour)))

\* g has a tour that closes: a cycle through every node
HasTour ==
    [g \in Instances |->
        \E tour \in [1..NodeCount(g) -> Range(g.nodes)] :
            IsPermutation(tour, g) /\ ValidCycle(g, tour)]

\* C1: a non-empty tour returned by SolveTSP holds every node of the graph
\* exactly once.
C1_ReturnedTourIsPermutation ==
    (mpc = "returned" /\ result.tour # <<>>) => IsPermutation(result.tour, graph)

\* C1, reached: two workers, two refined attempts, a four-node tour returned
C1_Witness ==
    /\ mpc = "returned"
    /\ numWorkers = 2
    /\ result.attempts = 2
    /\ Len(result.tour) = 4

\* the cost of every tour a worker holds, and of every tour of the sweep it
\* is about to run, is the weight of that tour's cycle
RunningCostIsCycleWeight ==
    \A w \in Touring :
        /\ wcost[w] = CycleWeight(graph, wpath[w])
        /\ wpc[w] = "sweep" /\ improved[w] =>
              LET t == SweepTrace(graph, wpath[w], wcost[w])
              IN  \A k \in 1..Len(t) : t[k].cost = CycleWeight(graph, t[k].path)

\* C2: the cost SolveTSP returns is the weight of the returned tour's cycle,
\* closing edge included, and twoOpt's running cost is the weight of the
\* current tour's cycle after every applied move.
C2_CostIsCycleWeight ==
    /\ mpc = "returned" => result.cost = CycleWeight(graph, result.tour)
    /\ RunningCostIsCycleWeight

\* C3: the tours the construction returns, the tours twoOpt holds after any
\* number of applied moves and the shared best tour are cycles of the graph:
\* every consecutive pair and (last, first) is an edge.
C3_ToursAreValidCycles ==
    /\ \A s \in Range(graph.nodes) :
          \A r \in NNTable[graph][s] : r.ok => ValidCycle(graph, r.path)
    /\ \A w \in Touring :
          /\ ValidCycle(graph, wpath[w])
          /\ wpc[w] = "sweep" /\ improved[w] =>
                LET t == SweepTrace(graph, wpath[w], wcost[w])
                IN  \A k \in 1..Len(t) : ValidCycle(graph, t[k].path)
    /\ bestPath # <<>> => ValidCycle(graph, bestPath)

\* C3, reached: on a graph that is not complete a tour went through a whole
\* sweep, in which a replacement edge was missing, and became the shared best
C3_Witness ==
    /\ \E u, v \in Range(graph.nodes) : u # v /\ ~HasEdge(graph, u, v)
    /\ bestPath # <<>>
    /\ \E w \in Workers : wpc[w] = "sweep" /\ ~improved[w]

\* C4, as steps: bestCost never goes up, bestPath and bestCost change only
\* together, to the tour and the cost of the one worker at the comparison,
\* and only to a strictly lower cost.
BestOnlyImproves ==
    /\ bestCost' <= bestCost
    /\ (bestPath' # bestPath \/ bestCost' # bestCost) =>
          /\ bestCost' < bestCost
          /\ \E w \in Workers :
                /\ wpc[w] = "compare"
                /\ bestPath' = wpath[w]
                /\ bestCost' = wcost[w]

\* C4, at the return: with an attempt completed, the returned cost is the
\* least cost any twoOpt call returned and the weight of the returned tour
BestIsReturned ==
    (mpc = "returned" /\ refinedCount > 0) =>
        /\ result.cost = refinedMin
        /\ result.tour # <<>>
        /\ result.tour = bestPath
        /\ CycleWeight(graph, result.tour) = result.cost

\* C4: SolveTSP returns the least refined cost of all completed attempts with
\* the tour of an attempt of that cost; the shared best is overwritten only
\* by a strictly lower cost, so it never goes up and an equal cost never
\* replaces the stored tour.
C4_BestOfAllAttempts == []BestIsReturned /\ [][BestOnlyImproves]_vars

\* C4, reached: two attempts completed and the second did not replace the best
C4_Witness ==
    /\ mpc = "returned"
    /\ refinedCount = 2
    /\ result.attempts = 2
    /\ result.cost = refinedMin
    /\ numWorkers = 2

\* C5 as amended: on a graph of at least two nodes the returned attempt count
\* is the number of iterations in which the construction succeeded and twoOpt
\* returned, and totalCycles never runs ahead of it; on a one-node graph 1 is
\* returned although no worker ran.
C5_AttemptsCountRefinedIterations ==
    /\ totalCycles <= refinedCount
    /\ (mpc = "returned" /\ NodeCount(graph) >= 2) => result.attempts = refinedCount
    /\ (mpc = "returned" /\ NodeCount(graph) = 1) =>
          (result.attempts = 1 /\ refinedCount = 0)

\* C5 as stated: the returned attempt count is the number of worker loop
\* iterations in which the construction succeeded and twoOpt returned.
C5_AttemptsAreIterations ==
    mpc = "returned" => result.attempts = refinedCount

\* C5, reached: two workers were in twoOpt at once and both attempts counted
C5_Witness ==
    /\ mpc = "returned"
    /\ numWorkers = 2
    /\ \A w \in SpawnedWorkers : wpc[w] = "exited"
    /\ result.attempts = 2
    /\ refinedCount = 2

\* C6, as states: SolveTSP is past wg.Wait() only when every spawned worker
\* has exited, at most one worker is in the critical section, and only with
\* the mutex held.
ReadAfterJoin ==
    /\ mpc \in {"collect", "returned"} =>
          \A w \in Workers : wpc[w] \in {"idle", "exited"}
    /\ Cardinality(InCritical) <= 1
    /\ InCritical # {} => locked

\* C6, as steps: the shared state changes only by the step of a worker that
\* is inside the critical section, and never once SolveTSP is past wg.Wait()
SharedChangesUnderLock ==
    shared' # shared =>
        /\ mpc = "wait" \/ mpc = "spawn"
        /\ locked
        /\ \E w \in InCritical : wpc'[w] # wpc[w]

\* C6: SolveTSP reads the shared best state only after every spawned worker
\* has exited, no worker writes it after that, and while workers run every
\* access to it is inside the mutex's critical section, one worker at a time.
C6_SharedStateIsGuarded == []ReadAfterJoin /\ [][SharedChangesUnderLock]_vars

\* C6, reached: two workers updated the shared state and SolveTSP read it
C6_Witness ==
    /\ mpc = "returned"
    /\ numWorkers = 2
    /\ totalCycles = 2
    /\ bestPath # <<>>
    /\ \A w \in SpawnedWorkers : wpc[w] = "exited"

\* C7: under fair scheduling, once the deadline has fired every worker exits
\* and SolveTSP returns, on every graph of at least two nodes, the ones
\* where every construction fails included.
C7_DeadlineLeadsToReturn ==
    (ctx = "expired") ~>
        (mpc = "returned" /\ \A w \in SpawnedWorkers : wpc[w] = "exited")

\* C7, reached: the deadline fired on the graph without a tour, and both
\* workers, which could only retry, have exited and SolveTSP has returned
C7_Witness ==
    /\ ~HasTour[graph]
    /\ NodeCount(graph) >= 2
    /\ numWorkers = 2
    /\ ctx = "expired"
    /\ mpc = "returned"
    /\ \A w \in SpawnedWorkers : wpc[w] = "exited"

\* C8 as stated: on a graph of at least two nodes without a closable tour
\* SolveTSP returns an empty tour and cost 0, and only once the deadline has
\* passed.
C8_NoTourReturnsAfterDeadline ==
    (mpc = "returned" /\ NodeCount(graph) >= 2 /\ ~HasTour[graph]) =>
        /\ result.tour = <<>>
        /\ result.cost = 0
        /\ ctx = "expired"

\* C8 as amended: on such a graph SolveTSP returns an empty tour and cost 0,
\* and, when maxCPU is at least 1 so that a worker is spawned, only once the
\* deadline has passed.
C8_NoTourReturnsEmpty ==
    (mpc = "returned" /\ NodeCount(graph) >= 2 /\ ~HasTour[graph]) =>
        /\ result.tour = <<>>
        /\ result.cost = 0
        /\ maxCPU >= 1 => ctx = "expired"

\* C8, reached: two workers retried on the graph of two disjoint cliques
\* until the deadline passed, and the empty tour was returned
C8_Witness ==
    /\ mpc = "returned"
    /\ NodeCount(graph) = 6
    /\ ~HasTour[graph]
    /\ maxCPU = 2
    /\ maxSeconds > 0
    /\ ctx = "expired"
    /\ result.tour = <<>>

\* C9: on a graph of fewer than two nodes SolveTSP returns in its first step:
\* no worker is spawned, no context is made, no construction or local search
\* runs; no node gives (empty tour, 0, 0), one node (that node, 0, 1).
C9_DegenerateGraphsReturnAtOnce ==
    NodeCount(graph) < 2 =>
        /\ mpc \in {"start", "returned"}
        /\ ctx = "none"
        /\ wg = 0
        /\ \A w \in Workers : wpc[w] = "idle" /\ wpath[w] = <<>>
        /\ refinedCount = 0
        /\ totalCycles = 0
        /\ mpc = "returned" =>
              /\ NodeCount(graph) = 0 =>
                    result = [tour |-> <<>>, cost |-> 0, attempts |-> 0]
              /\ NodeCount(graph) = 1 =>
                    result = [tour |-> <<graph.nodes[1]>>, cost |-> 0, attempts |-> 1]

\* C9, reached: the one-node graph has been solved
C9_Witness ==
    /\ mpc = "returned"
    /\ NodeCount(graph) = 1
    /\ result.tour = <<1>>
    /\ result.attempts = 1

\* C10, within a sweep: the cost after the body of a pair is below the cost
\* before it when a move was applied and equal to it otherwise
SweepNeverRaisesCost ==
    \A w \in Workers :
        wpc[w] = "sweep" /\ improved[w] =>
            LET t == SweepTrace(graph, wpath[w], wcost[w])
            IN  \A k \in 2..Len(t) :
                    IF t[k].applied
                    THEN t[k].cost < t[k - 1].cost
                    ELSE t[k].cost = t[k - 1].cost

\* C10, from sweep to sweep and to the return: a step of twoOpt leaves a cost
\* that is at most the cost before it
TwoOptStepNeverRaisesCost ==
    \A w \in Workers :
        (wpc[w] = "sweep" /\ wpc'[w] \in {"sweep", "lock"}) => wcost'[w] <= wcost[w]

\* C10: the running cost of twoOpt never goes up: it goes down at every
\* applied move and is unchanged otherwise, so the cost twoOpt returns is at
\* most the cost it was given, converged or cancelled.
C10_LocalSearchNeverRaisesCost ==
    []SweepNeverRaisesCost /\ [][TwoOptStepNeverRaisesCost]_vars

\* C10, reached: twoOpt is at a sweep that applies a move at a pair with
\* j = lastIndex and so lowers the cost
C10_Witness ==
    \E w \in Workers :
        /\ wpc[w] = "sweep"
        /\ improved[w]
        /\ LET t == SweepTrace(graph, wpath[w], wcost[w])
           IN  /\ \E k \in 2..Len(t) : t[k].applied /\ t[k].j = Len(wpath[w]) - 1
               /\ t[Len(t)].cost < wcost[w]


\* ------------------------------------------------- twoOpt run by itself
\* the graphs twoOpt is run on from every tour
SearchGraphs ==
    { LoadGraph(SquareLines), LoadGraph(KiteLines), LoadGraph(UniformLines),
      LoadGraph(FiveLines), LoadGraph(RuggedLines) }

\* every tour of g: each node once, every consecutive pair and the closing
\* pair an edge
ValidTours(g) ==
    {tour \in [1..NodeCount(g) -> Range(g.nodes)] :
        IsPermutation(tour, g) /\ ValidCycle(g, tour)}

\* one worker of a solve at the call twoOpt(path, cost, graph, ctx), with any
\* tour of the graph and its cost; the deadline has not passed
SearchInit ==
    /\ graph \in SearchGraphs
    /\ maxCPU = 1
    /\ maxSeconds = 1
    /\ mpc = "wait"
    /\ ctx = "active"
    /\ numWorkers = 1
    /\ spawned = 1
    /\ wg = 1
    /\ locked = FALSE
    /\ totalCycles = 0
    /\ bestPath = <<>>
    /\ bestCost = MaxFloat64
    /\ result = NoResult
    /\ wpc = [w \in Workers |-> IF w = 0 THEN "sweep" ELSE "idle"]
    /\ \E tour \in ValidTours(graph) :
          /\ wpath = [w \in Workers |-> IF w = 0 THEN tour ELSE <<>>]
          /\ wcost = [w \in Workers |-> IF w = 0 THEN CycleWeight(graph, tour) ELSE 0]
    /\ improved = [w \in Workers |-> w = 0]
    /\ tmp = [w \in Workers |-> 0]
    /\ refinedMin = MaxFloat64
    /\ refinedCount = 0

\* the steps of that call, and the deadline
SearchNext ==
    \/ SweepStart(0)
    \/ TwoOptConverged(0)
    \/ TwoOptCancelled(0)
    \/ DeadlineFires

SearchSpec == SearchInit /\ [][SearchNext]_vars

\* the move at positions (i, j) of tour is not an improving one: a
\* replacement edge is missing or the weight does not go down
NoGain(g, tour, i, j) ==
    LET size == Len(tour)
        u1   == At(tour, i)
        v1   == At(tour, (i + 1) % size)
        u2   == At(tour, j)
        v2   == At(tour, (j + 1) % size)
    IN  \/ ~HasEdge(g, u1, u2)
        \/ ~HasEdge(g, v1, v2)
        \/ (g.edges[u1][u2] + g.edges[v1][v2]) - (g.edges[u1][v1] + g.edges[u2][v2]) >= 0

\* no pair (i, j), j >= i + 2, other than (0, lastIndex), is an improving move
TwoOptStable(g, tour) ==
    \A i, j \in 0..(Len(tour) - 1) :
        (j >= i + 2 /\ ~(i = 0 /\ j = Len(tour) - 1)) => NoGain(g, tour, i, j)

\* C11: the tour twoOpt returns when its loop ended by itself (the flag is
\* false: the last sweep applied no move) has no improving move at any pair
\* (i, j), j >= i + 2, other than (0, lastIndex).
C11_ReturnedTourIsStable ==
    \A w \in Workers :
        (wpc[w] = "lock" /\ ~improved[w]) => TwoOptStable(graph, wpath[w])

\* C11, reached: on five nodes, where every pair of edges that do not touch
\* is looked at, twoOpt returned by itself, the deadline not passed, a tour
\* that has no improving move and yet is not the cheapest tour
C11_Witness ==
    /\ NodeCount(graph) = 5
    /\ ctx = "active"
    /\ wpc[0] = "lock"
    /\ ~improved[0]
    /\ wcost[0] = CycleWeight(graph, wpath[0])
    /\ \E tour \in ValidTours(graph) : CycleWeight(graph, tour) < wcost[0]

\* ------------------------------------------------------ the square scenario
\* the square of the scenario: sides of one unit (10), diagonals of sqrt 2 (14)
Square == LoadGraph(SquareLines)

\* the cost of the cycle along the four sides: 4.0 in the scenario's units
SquareOptimum == CycleWeight(Square, <<1, 2, 3, 4>>)

\* tour is a cycle through the four nodes along sides only
OnlySides(tour) ==
    /\ IsPermutation(tour, Square)
    /\ \A x \in 0..(Len(tour) - 1) :
          /\ HasEdge(Square, At(tour, x), At(tour, (x + 1) % Len(tour)))
          /\ Weight(Square, At(tour, x), At(tour, (x + 1) % Len(tour)))
                = Weight(Square, 1, 2)

\* the workers holding the result of a twoOpt call whose loop ended by itself
Converged ==
    {w \in Workers : wpc[w] \in {"lock", "load", "store", "compare", "unlock"}
                     /\ ~improved[w]}

\* C12 as stated: on the square SolveTSP with a nonzero budget returns the
\* cycle along the four sides, at cost 4.0.
C12_SquareReturnsOptimum ==
    (graph = Square /\ maxSeconds > 0 /\ mpc = "returned") =>
        /\ result.cost = SquareOptimum
        /\ OnlySides(result.tour)

\* C12 as amended: on the square every twoOpt call whose loop ends by itself
\* returns the cycle along the sides at cost 4.0, and once a call has
\* returned that cost SolveTSP returns that cycle at that cost.
C12_ConvergedSquareIsOptimum ==
    graph = Square =>
        /\ \A w \in Converged :
              wcost[w] = SquareOptimum /\ OnlySides(wpath[w])
        /\ (mpc = "returned" /\ refinedMin = SquareOptimum) =>
              /\ result.cost = SquareOptimum
              /\ OnlySides(result.tour)

\* C12, reached: on the square, with a budget, two attempts completed before
\* the deadline passed and the cycle along the sides was returned
C12_Witness ==
    /\ graph = Square
    /\ maxSeconds > 0
    /\ ctx = "expired"
    /\ mpc = "returned"
    /\ result.attempts = 2
    /\ result.cost = SquareOptimum
    /\ OnlySides(result.tour)

\* ------------------------------ randomizedNearestNeighbor run step by step
\* the graphs the construction is run on from every start node
ConstructGraphs ==
    { LoadGraph(PairLines), LoadGraph(SquareLines), LoadGraph(KiteLines),
      LoadGraph(CliquesLines), LoadGraph(UniformLines), LoadGraph(FiveLines) }

\* one worker of a solve at the top of its loop; the deadline has not passed
ConstructInit ==
    /\ graph \in ConstructGraphs
    /\ maxCPU = 1
    /\ maxSeconds = 1
    /\ mpc = "wait"
    /\ ctx = "active"
    /\ numWorkers = 1
    /\ spawned = 1
    /\ wg = 1
    /\ locked = FALSE
    /\ totalCycles = 0
    /\ bestPath = <<>>
    /\ bestCost = MaxFloat64
    /\ result = NoResult
    /\ wpc = [w \in Workers |-> IF w = 0 THEN "loop" ELSE "idle"]
    /\ wpath = [w \in Workers |-> <<>>]
    /\ wcost = [w \in Workers |-> 0]
    /\ improved = [w \in Workers |-> FALSE]
    /\ tmp = [w \in Workers |-> 0]
    /\ refinedMin = MaxFloat64
    /\ refinedCount = 0

\* startNode := graph.nodes[rng.Intn(numNodes)]; the call begins:
\* path = [startNode], totalCost = 0
Begin(w) ==
    /\ wpc[w] = "loop"
    /\ ~Done
    /\ \E startNode \in Range(graph.nodes) :
          wpath' = [wpath EXCEPT ![w] = <<startNode>>]
    /\ wcost' = [wcost EXCEPT ![w] = 0]
    /\ wpc' = [wpc EXCEPT ![w] = "construct"]
    /\ UNCHANGED << inputs, mainVars, wg, locked, shared, improved, tmp, history >>

\* the candidate lists the scan can leave, one per order of the neighbour map
TopKs(neighbors, visited) ==
    {TopKOf(neighbors, visited, order) : order \in ScanOrders(neighbors)}

\* one iteration of "for len(path) < numNodes" that finds a candidate: the
\* scan in some order of the map, then the draw
NNChoose(w) ==
    /\ wpc[w] = "construct"
    /\ Len(wpath[w]) < NodeCount(graph)
    /\ \E topK \in TopKs(graph.edges[wpath[w][Len(wpath[w])]], Range(wpath[w])) :
          /\ Len(topK) # 0
          /\ \E c \in 1..Len(topK) :
                /\ wpath' = [wpath EXCEPT ![w] = Append(@, topK[c].node)]
                /\ wcost' = [wcost EXCEPT ![w] = @ + topK[c].dist]
    /\ UNCHANGED << inputs, mainVars, wg, locked, shared, wpc, improved, tmp,
                    history >>

\* len(topK) == 0: return nil, 0, false; the worker continues its loop
NNDeadEnd(w) ==
    /\ wpc[w] = "construct"
    /\ Len(wpath[w]) < NodeCount(graph)
    /\ \E topK \in TopKs(graph.edges[wpath[w][Len(wpath[w])]], Range(wpath[w])) :
          Len(topK) = 0
    /\ wpath' = [wpath EXCEPT ![w] = NNFail.path]
    /\ wcost' = [wcost EXCEPT ![w] = NNFail.cost]
    /\ wpc' = [wpc EXCEPT ![w] = "loop"]
    /\ UNCHANGED << inputs, mainVars, wg, locked, shared, improved, tmp, history >>

\* the loop is over: "Close the loop"; a tour goes on to twoOpt, a failure
\* continues the worker's loop
NNClose(w) ==
    /\ wpc[w] = "construct"
    /\ ~(Len(wpath[w]) < NodeCount(graph))
    /\ LET r == CloseLoop(graph, wpath[w], wcost[w])
       IN  /\ wpath' = [wpath EXCEPT ![w] = r.path]
           /\ wcost' = [wcost EXCEPT ![w] = r.cost]
           /\ improved' = [improved EXCEPT ![w] = r.ok]
           /\ wpc' = [wpc EXCEPT ![w] = IF r.ok THEN "sweep" ELSE "loop"]
    /\ UNCHANGED << inputs, mainVars, wg, locked, shared, tmp, history >>

ConstructNext ==
    \/ Begin(0)
    \/ NNChoose(0)
    \/ NNDeadEnd(0)
    \/ NNClose(0)

ConstructSpec == ConstructInit /\ [][ConstructNext]_vars

\* the values rng.Intn returns in one call of the construction, one per
\* iteration; the list is as long in every run, so Intn(len(topK)) is taken
\* as the drawn value modulo len(topK)
DrawSeqs(numNodes) == [1..(numNodes - 1) -> 0..(K - 1)]

\* every result of the construction from a partial path when the draws are
\* given: what is left open is the order of each scan
RECURSIVE NNReplayFrom(_, _, _, _, _)
NNReplayFrom(g, numNodes, path, totalCost, draws) ==
    IF Len(path) < numNodes
    THEN UNION { IF Len(topK) = 0
                 THEN {NNFail}
                 ELSE LET choice == topK[(draws[Len(path)] % Len(topK)) + 1]
                      IN  NNReplayFrom(g, numNodes, Append(path, choice.node),
                                       totalCost + choice.dist, draws)
                 : topK \in TopKs(g.edges[path[Len(path)]], Range(path)) }
    ELSE {CloseLoop(g, path, totalCost)}

\* C13: a call of randomizedNearestNeighbor with a given start node, graph
\* and random draws returns one tour and one cost, whatever the order in
\* which the neighbour map is scanned.
C13_ReplayIsDeterministic ==
    \A w \in Workers :
        (wpc[w] = "construct" /\ Len(wpath[w]) = 1) =>
            \A draws \in DrawSeqs(NodeCount(graph)) :
                Cardinality(NNReplayFrom(graph, NodeCount(graph), wpath[w], 0, draws)) = 1

\* the neighbours of the last node of path that path has not visited
Unvisited(g, path) ==
    {n \in DOMAIN g.edges[path[Len(path)]] : n \notin Range(path)}

\* case (1): nodes are left and the current node has no unvisited neighbour
DeadEndAt(g, path) == Len(path) < NodeCount(g) /\ Unvisited(g, path) = {}

\* case (2): every node is visited and no edge leads from the last to the start
UnclosableAt(g, path) ==
    Len(path) = NodeCount(g) /\ ~HasEdge(g, path[Len(path)], path[1])

\* the weight of the edges along path, without a closing edge
RECURSIVE PathWeightFrom(_, _, _)
PathWeightFrom(g, path, x) ==
    IF x >= Len(path)
    THEN 0
    ELSE Weight(g, path[x], path[x + 1]) + PathWeightFrom(g, path, x + 1)

\* C14, as states: the partial path holds distinct nodes and its cost is the
\* sum of its edges; the tour handed to twoOpt holds every node once and its
\* cost is that sum plus the closing edge; a worker back at the top of its
\* loop holds no tour, and nothing of a failure is in the shared state
ConstructionIsSound ==
    \A w \in Workers :
        /\ wpc[w] = "construct" =>
              /\ Len(wpath[w]) \in 1..NodeCount(graph)
              /\ Cardinality(Range(wpath[w])) = Len(wpath[w])
              /\ wcost[w] = PathWeightFrom(graph, wpath[w], 1)
        /\ wpc[w] = "sweep" =>
              /\ IsPermutation(wpath[w], graph)
              /\ HasEdge(graph, wpath[w][Len(wpath[w])], wpath[w][1])
              /\ wcost[w] = PathWeightFrom(graph, wpath[w], 1)
                            + Weight(graph, wpath[w][Len(wpath[w])], wpath[w][1])
        /\ wpc[w] = "loop" =>
              /\ wpath[w] = <<>>
              /\ wcost[w] = 0
              /\ totalCycles = 0
              /\ bestPath = <<>>
              /\ result = NoResult

\* C14, as steps of the construction: it fails exactly at a dead end or at
\* a tour that cannot close, the failure returns no tour and changes nothing
\* but the worker's place, which is the top of its loop again; any other
\* step keeps the start node and either appends an unvisited neighbour or
\* returns the tour
ConstructionOutcome ==
    \A w \in Workers :
        wpc[w] = "construct" =>
            /\ (wpc'[w] = "loop") <=>
                  (DeadEndAt(graph, wpath[w]) \/ UnclosableAt(graph, wpath[w]))
            /\ wpc'[w] = "loop" =>
                  /\ wpath'[w] = <<>>
                  /\ wcost'[w] = 0
                  /\ UNCHANGED << shared, result, mpc, wg >>
                  /\ graph \in Instances => NNFail \in NNTable[graph][wpath[w][1]]
            /\ wpc'[w] = "construct" =>
                  /\ wpath'[w][1] = wpath[w][1]
                  /\ \E n \in Unvisited(graph, wpath[w]) : wpath'[w] = Append(wpath[w], n)
            /\ wpc'[w] = "sweep" =>
                  /\ wpath'[w] = wpath[w]
                  /\ Len(wpath[w]) = NodeCount(graph)
                  /\ graph \in Instances =>
                        [path |-> wpath'[w], cost |-> wcost'[w], ok |-> TRUE]
                            \in NNTable[graph][wpath[w][1]]

\* C14: randomizedNearestNeighbor fails exactly at a dead end or when the
\* tour cannot close; otherwise it returns numNodes distinct nodes from the
\* start node on, at the cost of the chosen edges plus the closing edge. A
\* failure returns no tour, and SolveTSP's worker only goes round its loop.
C14_ConstructionFailsExactlyWhen ==
    []ConstructionIsSound /\ [][ConstructionOutcome]_vars

\* C14, reached: every node is visited and the last one has no edge back to
\* the start node
C14_Witness ==
    /\ wpc[0] = "construct"
    /\ UnclosableAt(graph, wpath[0])
    /\ Len(wpath[0]) = 4

\* the nodes a candidate list holds
Retained(topK) == {topK[c].node : c \in 1..Len(topK)}

\* C15, for one candidate list left by a scan at the end of path: it holds
\* unvisited neighbours only, each once and with its weight, min(k, number of
\* unvisited neighbours) of them, and no unvisited neighbour left out is
\* strictly nearer than a retained one
SmallestK(g, path, topK) ==
    LET neighbors == g.edges[path[Len(path)]]
        open      == Unvisited(g, path)
    IN  /\ Retained(topK) \subseteq open
        /\ Cardinality(Retained(topK)) = Len(topK)
        /\ \A c \in 1..Len(topK) : topK[c].dist = neighbors[topK[c].node]
        /\ Len(topK) = Min(K, Cardinality(open))
        /\ \A n \in open \ Retained(topK) :
              \A c \in 1..Len(topK) : ~(neighbors[n] < topK[c].dist)

\* C15, as states: whatever the order of the scan, the list it leaves is that
TopKIsSmallestK ==
    \A w \in Workers :
        (wpc[w] = "construct" /\ Len(wpath[w]) < NodeCount(graph)) =>
            \A order \in ScanOrders(graph.edges[wpath[w][Len(wpath[w])]]) :
                SmallestK(graph, wpath[w],
                          TopKOf(graph.edges[wpath[w][Len(wpath[w])]],
                                 Range(wpath[w]), order))

\* C15, as steps: the node appended is an unvisited neighbour than which
\* fewer than k unvisited neighbours are strictly nearer
NextIsAmongSmallestK ==
    \A w \in Workers :
        (wpc[w] = "construct" /\ wpc'[w] = "construct" /\ wpath'[w] # wpath[w]) =>
            LET neighbors == graph.edges[wpath[w][Len(wpath[w])]]
                open      == Unvisited(graph, wpath[w])
                next      == wpath'[w][Len(wpath'[w])]
            IN  /\ next \in open
                /\ Cardinality({n \in open : neighbors[n] < neighbors[next]}) < K

\* C15: at each construction step, for every order of the scan, the retained
\* candidates are unvisited neighbours, min(3, number of unvisited neighbours)
\* of them, of the smallest weights, and the next node is one of them.
C15_TopKHoldsTheNearest ==
    []TopKIsSmallestK /\ [][NextIsAmongSmallestK]_vars

\* C15, reached: a node with four unvisited neighbours, one more than k, was
\* scanned and a node chosen; the next scan has three to choose from
C15_Witness ==
    /\ NodeCount(graph) = 5
    /\ wpc[0] = "construct"
    /\ Len(wpath[0]) = 2
    /\ Cardinality(Unvisited(graph, <<wpath[0][1]>>)) > K

\* ------------------------------------------------------------- cancellation
\* C16, the two polls: with the deadline passed, a worker at the top of its
\* loop only stays or exits, and a worker at the top of a sweep only stays or
\* returns from twoOpt, its tour, cost and flag as they were
DeadlineStopsNewWork ==
    \A w \in Workers :
        ctx = "expired" =>
            /\ wpc[w] = "loop" => wpc'[w] \in {"loop", "exited"}
            /\ wpc[w] = "sweep" =>
                  /\ wpc'[w] \in {"sweep", "lock"}
                  /\ wpath'[w] = wpath[w]
                  /\ wcost'[w] = wcost[w]
                  /\ improved'[w] = improved[w]

\* C16, the cancelled result: a call that returns at the poll (its flag is
\* still true) is a completed attempt, and from there the worker goes through
\* the whole update whether the deadline has passed or not: the counter goes
\* up by one and the cost is compared against the shared best
CancelledIsCounted ==
    \A w \in Workers :
        /\ (wpc[w] = "sweep" /\ improved[w] /\ wpc'[w] = "lock") =>
              /\ ctx \in {"expired", "canceled"}
              /\ refinedCount' = refinedCount + 1
              /\ wpath'[w] = wpath[w]
              /\ wcost'[w] = wcost[w]
        /\ wpc[w] = "lock" => wpc'[w] \in {"lock", "load"}
        /\ wpc[w] = "load" => wpc'[w] \in {"load", "store"}
        /\ wpc[w] = "store" => wpc'[w] \in {"store", "compare"}
        /\ (wpc[w] = "store" /\ wpc'[w] = "compare") => totalCycles' = totalCycles + 1
        /\ wpc[w] = "compare" => wpc'[w] \in {"compare", "unlock"}
        /\ (wpc[w] = "compare" /\ wpc'[w] = "unlock") =>
              /\ bestCost' = Min(bestCost, wcost[w])
              /\ wcost[w] < bestCost => bestPath' = wpath[w]

\* C16: the deadline is looked at at the top of the worker's loop and at the
\* top of every sweep only: once it has passed no worker starts a
\* construction or a sweep; a twoOpt call that finds it passed returns its
\* tour and cost as they are, and that result is counted and compared.
C16_CancellationAtTwoPolls ==
    [][DeadlineStopsNewWork /\ CancelledIsCounted]_vars

\* C16, reached: after the deadline a worker whose twoOpt call was cut short
\* (its flag is still true) has counted the attempt, and its tour is the best
C16_Witness ==
    \E w \in Workers :
        /\ ctx = "expired"
        /\ wpc[w] = "unlock"
        /\ improved[w]
        /\ totalCycles = 1
        /\ bestPath = wpath[w]
        /\ bestCost = wcost[w]

\* --------------------------------------------------- twoOpt's termination
\* the Go scheduler runs the worker: a sweep that can start does start, and a
\* loop that can end does end. Nothing is assumed of the deadline.
SearchFairSpec ==
    /\ SearchInit
    /\ [][SearchNext]_vars
    /\ WF_vars(SweepStart(0))
    /\ WF_vars(TwoOptConverged(0))

\* C17, as steps: a sweep either applies a move and leaves a lower cost, or
\* applies none, leaves tour and cost as they were and is the last one
SweepLowersOrEnds ==
    \A w \in Workers :
        (wpc[w] = "sweep" /\ wpc'[w] = "sweep" /\ improved[w]
            /\ << wpath'[w], wcost'[w], improved'[w] >> # << wpath[w], wcost[w], improved[w] >>) =>
            \/ improved'[w] /\ wcost'[w] < wcost[w]
            \/ ~improved'[w] /\ wcost'[w] = wcost[w] /\ wpath'[w] = wpath[w]

\* C17: from every tour twoOpt returns by itself when the deadline never
\* passes: every sweep that applies a move lowers the cost, so the sweeps
\* run out, and the loop ends after a sweep that applied no move.
C17_TwoOptTerminates ==
    /\ <>(ctx # "active" \/ (wpc[0] = "lock" /\ ~improved[0]))
    /\ [][SweepLowersOrEnds]_vars

\* C17, reached: the deadline not passed, twoOpt has returned by itself a
\* tour that some tour of the graph comes to by two sweeps that each apply a
\* move, before the sweep that applies none
C17_Witness ==
    /\ ctx = "active"
    /\ wpc[0] = "lock"
    /\ ~improved[0]
    /\ \E tour \in ValidTours(graph) :
          LET r1 == Sweep(graph, tour, CycleWeight(graph, tour))
              r2 == Sweep(graph, r1.path, r1.cost)
          IN  /\ r1.improved
              /\ r2.improved
              /\ r2.path = wpath[0]
              /\ r2.cost = wcost[0]

\* ------------------------------------------------- the graph being built
\* the node identifiers passed to AddEdge: opaque integers, not contiguous
Endpoints == {1, 2, 5}

\* the weights passed to AddEdge
Weights == {3, 4}

\* a new graph, before any solve
GraphInit ==
    /\ graph = NewGraph
    /\ maxCPU = 0
    /\ maxSeconds = 0
    /\ mpc = "start"
    /\ ctx = "none"
    /\ numWorkers = 0
    /\ spawned = 0
    /\ wg = 0
    /\ locked = FALSE
    /\ totalCycles = 0
    /\ bestPath = <<>>
    /\ bestCost = MaxFloat64
    /\ result = NoResult
    /\ wpc = [w \in Workers |-> "idle"]
    /\ wpath = [w \in Workers |-> <<>>]
    /\ wcost = [w \in Workers |-> 0]
    /\ improved = [w \in Workers |-> FALSE]
    /\ tmp = [w \in Workers |-> 0]
    /\ refinedMin = MaxFloat64
    /\ refinedCount = 0

\* graph.AddEdge(from, to, weight), as loadGraph calls it for a line
AddEdgeCall ==
    /\ \E from, to \in Endpoints :
          \E weight \in Weights : graph' = AddEdge(graph, from, to, weight)
    /\ UNCHANGED << maxCPU, maxSeconds, mainVars, wg, locked, shared, wpc,
                    localVars, history >>

GraphNext == AddEdgeCall

GraphSpec == GraphInit /\ [][GraphNext]_vars

\* C18, as states: the stored edges are symmetric, the node list holds no
\* node twice and holds exactly the nodes that have a neighbour map, each of
\* which, having been an endpoint of a call, has a stored edge
GraphIsConsistent ==
    /\ \A u \in DOMAIN graph.edges :
          \A v \in DOMAIN graph.edges[u] :
              /\ HasEdge(graph, v, u)
              /\ graph.edges[v][u] = graph.edges[u][v]
    /\ Cardinality(Range(graph.nodes)) = Len(graph.nodes)
    /\ Range(graph.nodes) = DOMAIN graph.edges
    /\ \A u \in DOMAIN graph.edges : DOMAIN graph.edges[u] # {}
    /\ NodeCount(graph) = Cardinality(DOMAIN graph.edges)

\* C18, as steps: a call keeps the node list as a prefix and every stored
\* edge stored; of whichever call made the step, both endpoints are in the
\* list afterwards and the weight is stored in both directions, an older
\* weight overwritten; new nodes are endpoints of the call
AddEdgeEffect ==
    /\ Len(graph.nodes) <= Len(graph'.nodes)
    /\ SubSeq(graph'.nodes, 1, Len(graph.nodes)) = graph.nodes
    /\ \A u \in DOMAIN graph.edges :
          /\ u \in DOMAIN graph'.edges
          /\ DOMAIN graph.edges[u] \subseteq DOMAIN graph'.edges[u]
    /\ \A from, to \in Endpoints :
          \A weight \in Weights :
              graph' = AddEdge(graph, from, to, weight) =>
                  /\ {from, to} \subseteq Range(graph'.nodes)
                  /\ Range(graph'.nodes) = Range(graph.nodes) \cup {from, to}
                  /\ HasEdge(graph', from, to) /\ graph'.edges[from][to] = weight
                  /\ HasEdge(graph', to, from) /\ graph'.edges[to][from] = weight

C19_NoSelfLoops ==
    \A u \in DOMAIN graph.edges : ~HasEdge(graph, u, u)

\* ------------------------------------------------ the counter and the best
\* the attempt counter is positive exactly when the best tour is set
CounterIffBest == (totalCycles > 0) <=> (bestPath # <<>>)

\* what SolveTSP returns: an empty tour exactly with attempt count 0
EmptyIffNoAttempt ==
    mpc = "returned" => ((result.tour = <<>>) <=> (result.attempts = 0))

=============================================================================
